---- MODULE Spec2Model ----
(***************************************************************************)
(* Airspace Copilot: the snapshot fetcher and the three tools of           *)
(* server.py, and the tool-calling agent loop, the agent roles and the     *)
(* orchestrator of agents.py.                                              *)
(*                                                                         *)
(* JSON values are tagged records [t, v]; a dict is a record whose missing *)
(* keys hold JAbsent.  Python strings that the code inspects character by  *)
(* character (callsigns) are sequences of one-character strings.  The      *)
(* outcome of a Python call is Ret(value) or Raise(exception, message).    *)
(*                                                                         *)
(* Record constructors list their fields in the order TLC keeps them (the  *)
(* order in which the names first occur in this module), so that values    *)
(* shared between TLC's workers are never reordered in place.              *)
(***************************************************************************)
EXTENDS Integers, Sequences, FiniteSets, TLC

\* ----------------------------------------------------------------- bounds
\* Longest callsign a caller asks for, in characters.
MaxStrLen == 2
\* Most flights in a snapshot handed to the fetcher and the callsign lookup.
MaxFlights == 2
\* Most flights in a snapshot handed to the anomaly detector.
MaxAlertFlights == 2
\* Most tool-call requests in one first-round model response.
MaxToolCalls == 2

\* ------------------------------------------------------------ JSON values
JAbsent == [t |-> "absent", v |-> <<>>]
JNull == [t |-> "null", v |-> <<>>]
JNum(n) == [t |-> "num", v |-> n]
JStr(s) == [t |-> "str", v |-> s]
JList(s) == [t |-> "list", v |-> s]

\* Outcome of a Python call: a returned value, or a raised exception.
Ret(x) == [kind |-> "return", exc |-> "", value |-> x]
Raise(e, m) == [kind |-> "raise", exc |-> e, value |-> m]

\* dict.get(key): None for a missing key, the stored value (None included) else.
Get(d, k) == IF d[k].t = "absent" THEN JNull ELSE d[k]

\* dict.get(key, default)
GetOr(d, k, dflt) == IF d[k].t = "absent" THEN dflt ELSE d[k]

\* dict.setdefault(key, value): sets the key only when it is missing.
setdefault(d, k, x) == IF d[k].t = "absent" THEN [d EXCEPT ![k] = x] ELSE d

\* Python truthiness of a JSON value.
Truthy(x) ==
    CASE x.t = "null" -> FALSE
      [] x.t = "absent" -> FALSE
      [] x.t = "num" -> x.v # 0
      [] x.t = "str" -> x.v # <<>>
      [] x.t = "list" -> x.v # <<>>

\* Python `a or b`
Or(a, b) == IF Truthy(a) THEN a ELSE b

SeqsUpTo(S, n) == UNION {[1..k -> S] : k \in 0..n}

\* ------------------------------------------------------------ str methods
Chars == {"a", "A", " "}
Strs == SeqsUpTo(Chars, MaxStrLen)

IsSpace(c) == c = " "

\* str.upper(), one character.
UpperChar(c) == IF c = "a" THEN "A" ELSE c

\* str.upper()
upper(s) == [i \in 1..Len(s) |-> UpperChar(s[i])]

RECURSIVE lstrip(_)
lstrip(s) == IF s # <<>> /\ IsSpace(Head(s)) THEN lstrip(Tail(s)) ELSE s

RECURSIVE rstrip(_)
rstrip(s) ==
    IF s # <<>> /\ IsSpace(s[Len(s)]) THEN rstrip(SubSeq(s, 1, Len(s) - 1)) ELSE s

\* str.strip()
strip(s) == rstrip(lstrip(s))

\* ---------------------------------------------------------------- server
\* Keys of REGION_WEBHOOKS.
REGION_WEBHOOKS == {"region1"}

\* Region identifiers a caller may pass.
Regions == {"region1", "region2"}

\* What the webhook answers: a JSON object, or a failed request / bad status.
HttpOk(body) == [body |-> body, http |-> "ok"]
HttpFail == [body |-> <<>>, http |-> "fail"]

\* Outbound requests _fetch_snapshot makes for a region.
OutboundCalls(region) == IF region \in REGION_WEBHOOKS THEN 1 ELSE 0

\* Variant: the count is taken of nothing, so every backfilled count is 0.
FlightsLen_Zero(data) ==
    LET fl == GetOr(data, "flights", JList(<<>>))
    IN  IF fl.t = "list" THEN Ret(0) ELSE Raise("TypeError", "len")

\* len(data.get("flights", [])), evaluated before setdefault is called.
FlightsLen(data) ==
    LET fl == GetOr(data, "flights", JList(<<>>))
    IN  IF fl.t = "list" THEN Ret(Len(fl.v)) ELSE Raise("TypeError", "len")

\* Variant: both fields are assigned whether or not the payload has them.
Backfill_Overwrite(data, region, n) ==
    [data EXCEPT !.region = JStr(region), !.flight_count = JNum(n)]

\* data.setdefault("region", region); data.setdefault("flight_count", n)
Backfill(data, region, n) ==
    setdefault(setdefault(data, "region", JStr(region)), "flight_count", JNum(n))

fetch_snapshot(region, up) ==
    IF region \notin REGION_WEBHOOKS THEN Raise("ValueError", "Unknown region")
    ELSE IF up.http # "ok" THEN Raise("UpstreamError", "request failed")
    ELSE LET n == FlightsLen(up.body)
         IN  IF n.kind = "raise" THEN n
             ELSE Ret(Backfill(up.body, region, n.value))

flights_list_region_snapshot(region, up) == fetch_snapshot(region, up)

\* for f in snapshot.get("flights", []): iterating None raises TypeError.
FlightsOf(snapshot) == GetOr(snapshot, "flights", JList(<<>>))

\* The header fields both lookup and alerts read with snapshot[...].
HeaderKeys == <<"region", "snapshot_time", "fetched_at_iso">>

MissingHeader(snapshot) ==
    {i \in 1..Len(HeaderKeys) : snapshot[HeaderKeys[i]].t = "absent"}

FirstMissing(snapshot) ==
    HeaderKeys[CHOOSE i \in MissingHeader(snapshot) :
                  \A j \in MissingHeader(snapshot) : i <= j]

\* Variant: a flight without a callsign text has no callsign to compare.
StoredCallsign_TextOnly(f) ==
    IF f.callsign.t = "str" THEN upper(strip(f.callsign.v)) ELSE <<"None">>

\* (f.get("callsign") or "").strip().upper()
StoredCallsign(f) == upper(strip(Or(Get(f, "callsign"), JStr(<<>>)).v))

\* Variant: the query is upper-cased but not trimmed.
Target_NoStrip(callsign) == upper(callsign)

\* callsign.strip().upper()
Target(callsign) == upper(strip(callsign))

\* Index of the flight the search loop stops at, 0 when it runs to the end.
RECURSIVE FindFrom(_, _, _)
FindFrom(fl, target, i) ==
    IF i > Len(fl) THEN 0
    ELSE IF StoredCallsign(fl[i]) = target THEN i
    ELSE FindFrom(fl, target, i + 1)

LookupResult(snapshot, found, message) ==
    [region |-> snapshot.region,
     message |-> message,
     snapshot_time |-> snapshot.snapshot_time,
     fetched_at_iso |-> snapshot.fetched_at_iso,
     flight |-> found]

NotFoundMessage(callsign, region) == <<"No flight with callsign", callsign, region>>
FoundMessage(callsign, region) == <<"Found flight", callsign, region>>

\* callsign arrives as a JSON value: .strip() exists on strings only.
flights_get_by_callsign(callsign, region, up) ==
    LET s == fetch_snapshot(region, up)
    IN  IF s.kind = "raise" THEN s
        ELSE IF callsign.t # "str" THEN Raise("AttributeError", "strip")
        ELSE LET snapshot == s.value
                 fl == FlightsOf(snapshot)
             IN  IF fl.t # "list" THEN Raise("TypeError", "not iterable")
                 ELSE LET i == FindFrom(fl.v, Target(callsign.v), 1)
                      IN  IF MissingHeader(snapshot) # {}
                          THEN Raise("KeyError", FirstMissing(snapshot))
                          ELSE IF i = 0
                          THEN Ret(LookupResult(snapshot, JNull,
                                                NotFoundMessage(callsign.v, region)))
                          ELSE Ret(LookupResult(snapshot, fl.v[i],
                                                FoundMessage(callsign.v, region)))

\* Thresholds of the anomaly rules.
CruiseAltitude == 8000
LowSpeed == 100
RateLimit == 20

\* v = f.get("velocity") or 0.0
Velocity(f) == Or(Get(f, "velocity"), JNum(0)).v

\* alt = f.get("geo_altitude") or f.get("baro_altitude") or 0.0
Altitude(f) == Or(Or(Get(f, "geo_altitude"), Get(f, "baro_altitude")), JNum(0)).v

\* vr = f.get("vertical_rate") or 0.0
VerticalRate(f) == Or(Get(f, "vertical_rate"), JNum(0)).v

LowSpeedRule(f) == Altitude(f) > CruiseAltitude /\ Velocity(f) < LowSpeed
DescentRule(f) == VerticalRate(f) < -RateLimit
ClimbRule(f) == ~DescentRule(f) /\ VerticalRate(f) > RateLimit

\* The reasons list of one flight, in the order the rules append to it.
Reasons(f) ==
    (IF LowSpeedRule(f) THEN <<"Unusually low speed at high altitude">> ELSE <<>>)
    \o (IF DescentRule(f) THEN <<"Very high descent rate">>
        ELSE IF ClimbRule(f) THEN <<"Very high climb rate">> ELSE <<>>)

\* severity starts as "info" and every rule that fires sets "warning".
Severity(f) ==
    IF LowSpeedRule(f) \/ DescentRule(f) \/ ClimbRule(f) THEN "warning" ELSE "info"

\* "; ".join(reasons)
RECURSIVE Join(_)
Join(rs) ==
    IF rs = <<>> THEN <<>>
    ELSE IF Len(rs) = 1 THEN rs
    ELSE <<Head(rs), "; ">> \o Join(Tail(rs))

\* Variant: the alert is appended without looking at the reasons list.
Emits_Always(f) == TRUE

\* if reasons: an empty list appends nothing.
Emits(f) == Reasons(f) # <<>>

AlertOf(f) == [flight |-> f, reason |-> Join(Reasons(f)), severity |-> Severity(f)]

RECURSIVE AlertsOf(_)
AlertsOf(fl) ==
    IF fl = <<>> THEN <<>>
    ELSE (IF Emits(Head(fl)) THEN <<AlertOf(Head(fl))>> ELSE <<>>) \o AlertsOf(Tail(fl))

alerts_list_active(region, up) ==
    LET s == fetch_snapshot(region, up)
    IN  IF s.kind = "raise" THEN s
        ELSE LET snapshot == s.value
                 fl == FlightsOf(snapshot)
             IN  IF fl.t # "list" THEN Raise("TypeError", "not iterable")
                 ELSE IF MissingHeader(snapshot) # {}
                 THEN Raise("KeyError", FirstMissing(snapshot))
                 ELSE Ret([region |-> snapshot.region,
                           snapshot_time |-> snapshot.snapshot_time,
                           fetched_at_iso |-> snapshot.fetched_at_iso,
                           alert_count |-> Len(AlertsOf(fl.v)),
                           alerts |-> AlertsOf(fl.v)])

\* ------------------------------------------------- inputs of the tool layer
Flight(cs, v, geo, baro, vr) ==
    [callsign |-> cs, velocity |-> v, geo_altitude |-> geo,
     baro_altitude |-> baro, vertical_rate |-> vr]

Payload(region, st, iso, fc, fl) ==
    [region |-> region, flight_count |-> fc, snapshot_time |-> st,
     fetched_at_iso |-> iso, flights |-> fl]

\* Texts a feed stores as a callsign: empty, blank, either case, padded.
StoredStrs == {<<>>, <<" ">>, <<"a">>, <<"A">>, <<"a", " ">>}
CallsignVals == {JAbsent, JNull} \cup {JStr(s) : s \in StoredStrs}

\* Flights that differ in their callsign only.
CallsignFlights == {Flight(cs, JAbsent, JAbsent, JAbsent, JAbsent) : cs \in CallsignVals}

VelVals == {JNull, JNum(99), JNum(100)}
GeoVals == {JNull, JNum(0), JNum(8001)}
BaroVals == {JNull, JNum(8000), JNum(8001)}
RateVals == {JNull, JNum(-21), JNum(-20), JNum(20), JNum(21)}

\* Flights that differ in their kinematics only: every speed with every
\* altitude source at no vertical rate, and every vertical rate on a slow, high
\* flight and on a flight without other readings.
KinFlights ==
    {Flight(JAbsent, v, g, b, JNull) : v \in VelVals, g \in GeoVals, b \in BaroVals}
    \cup {Flight(JAbsent, JNum(99), JNum(8001), JNull, r) : r \in RateVals}
    \cup {Flight(JAbsent, JNull, JNull, JNull, r) : r \in RateVals}

SampleFlights ==
    {Flight(JStr(<<"A">>), JNull, JNull, JNull, JNull),
     Flight(JNull, JNum(99), JNum(8001), JNull, JNull)}

TimeVals == {JAbsent, JNum(1700)}
IsoVals == {JAbsent, JStr("iso")}

FlightCountVals == {JAbsent} \cup {JNum(n) : n \in 0..(MaxFlights + 1)}
RegionVals == {JAbsent, JStr("region1"), JStr("elsewhere")}

\* Flight lists of at most n flights drawn from F, and the missing key.
FlightLists(F, n) == {JAbsent} \cup {JList(s) : s \in SeqsUpTo(F, n)}

ToolCall(tool, callsign, region, up) ==
    [region |-> region, up |-> up, callsign |-> callsign, tool |-> tool]

\* ---------------------------------------------------------------- agents
\* Names of the entries of TOOLS, in the order of the list.
TOOLS == <<"flights_list_region_snapshot", "flights_get_by_callsign", "alerts_list_active">>

\* allowed_tools: None, or a list of names.
NoAllowList == [restricted |-> FALSE, names |-> {}]
AllowList(names) == [restricted |-> TRUE, names |-> names]

\* The allow-list each entry point passes to the loop.
AllowedTools(agent) ==
    CASE agent = "traveler" -> AllowList({"flights_get_by_callsign"})
      [] agent = "ops" -> AllowList({"flights_list_region_snapshot", "alerts_list_active"})
      [] OTHER -> NoAllowList

\* Variant: every schema of TOOLS is offered, whatever the allow-list.
ToolsFor_All(allowed) == TOOLS

\* tools = TOOLS, or the entries of TOOLS whose name is in allowed_tools.
ToolsFor(allowed) ==
    IF ~allowed.restricted THEN TOOLS
    ELSE SelectSeq(TOOLS, LAMBDA n : n \in allowed.names)

\* Keyword arguments decoded from JSON: the keys the tools know, each present or not.
Kwargs(callsign, region) == [region |-> region, callsign |-> callsign]

\* json.loads on the argument texts of ToolRequests and on the "{}" the loop
\* substitutes: any other text is malformed.
json_loads(text) ==
    CASE text = "{}" -> Ret(Kwargs(JAbsent, JAbsent))
      [] text = "{\"callsign\": \"a\"}" -> Ret(Kwargs(JStr(<<"a">>), JAbsent))
      [] text = "{\"region\": \"region2\"}" -> Ret(Kwargs(JAbsent, JStr("region2")))
      [] OTHER -> Raise("JSONDecodeError", text)

\* fn.arguments or "{}"
ArgumentsText(arguments) == IF arguments = "" THEN "{}" ELSE arguments

\* json.dumps of a tool result: the JSON text of the value.
json_dumps(x) == [json |-> x]

\* The object {"error": message}.
ErrorObj(m) == [error |-> m]

\* region: str = "region1"
RegionArg(arguments) == GetOr(arguments, "region", JStr("region1")).v

\* What one execute_tool invocation does: its outcome and the outbound
\* requests it made.
Executed(r, n) == [outcome |-> r, net |-> n]

execute_tool(name, arguments, up) ==
    CASE name = "flights_list_region_snapshot" ->
            IF arguments.callsign.t # "absent"
            THEN Executed(Raise("TypeError", "unexpected keyword argument"), 0)
            ELSE Executed(flights_list_region_snapshot(RegionArg(arguments), up),
                          OutboundCalls(RegionArg(arguments)))
      [] name = "flights_get_by_callsign" ->
            IF arguments.callsign.t = "absent"
            THEN Executed(Raise("TypeError", "missing required argument"), 0)
            ELSE Executed(flights_get_by_callsign(arguments.callsign, RegionArg(arguments), up),
                          OutboundCalls(RegionArg(arguments)))
      [] name = "alerts_list_active" ->
            IF arguments.callsign.t # "absent"
            THEN Executed(Raise("TypeError", "unexpected keyword argument"), 0)
            ELSE Executed(alerts_list_active(RegionArg(arguments), up),
                          OutboundCalls(RegionArg(arguments)))
      [] OTHER -> Executed(Raise("ValueError", <<"Unknown tool:", name>>), 0)

\* Variant: every name passes the allow-list.
NotAllowed_Never(allowed, name) == FALSE

\* allowed_tools is not None and tool_name not in allowed_tools
NotAllowed(allowed, name) == allowed.restricted /\ name \notin allowed.names

NotAllowedMessage(name) == <<"Tool", name, "is not allowed for this agent.">>

\* One pass of the loop body over a tool call: either the tool message it
\* appends, or the exception that leaves the loop; whether execute_tool was
\* invoked, whether it raised, and the outbound requests made.
Handled(kind, exc, result, dispatched, faulted, net) ==
    [kind |-> kind, exc |-> exc, net |-> net, result |-> result,
     dispatched |-> dispatched, faulted |-> faulted]

\* Variant: execute_tool is called outside any try block.
HandleToolCall_NoCatch(c, allowed, up) ==
    LET args == json_loads(ArgumentsText(c.arguments))
    IN  IF args.kind = "raise"
        THEN Handled("raise", args.exc, <<>>, FALSE, FALSE, 0)
        ELSE IF NotAllowed(allowed, c.name)
        THEN Handled("append", "", ErrorObj(NotAllowedMessage(c.name)), FALSE, FALSE, 0)
        ELSE LET e == execute_tool(c.name, args.value, up)
             IN  IF e.outcome.kind = "raise"
                 THEN Handled("raise", e.outcome.exc, <<>>, TRUE, TRUE, e.net)
                 ELSE Handled("append", "", e.outcome.value, TRUE, FALSE, e.net)

HandleToolCall(c, allowed, up) ==
    LET args == json_loads(ArgumentsText(c.arguments))
    IN  IF args.kind = "raise"
        THEN Handled("raise", args.exc, <<>>, FALSE, FALSE, 0)
        ELSE IF NotAllowed(allowed, c.name)
        THEN Handled("append", "", ErrorObj(NotAllowedMessage(c.name)), FALSE, FALSE, 0)
        ELSE LET e == execute_tool(c.name, args.value, up)
             IN  IF e.outcome.kind = "raise"
                 THEN Handled("append", "", ErrorObj(e.outcome.value), TRUE, TRUE, e.net)
                 ELSE Handled("append", "", e.outcome.value, TRUE, FALSE, e.net)

\* Messages of the conversation.
Msg(role, content) ==
    [name |-> "", role |-> role, content |-> content, tool_call_id |-> <<>>,
     tool_calls |-> JNull]

AssistantMsg(resp) ==
    [name |-> "", role |-> "assistant", content |-> resp.content, tool_call_id |-> <<>>,
     tool_calls |-> resp.tool_calls]

ToolMsg(c, result) ==
    [name |-> c.name, role |-> "tool", content |-> json_dumps(result),
     tool_call_id |-> c.id, tool_calls |-> JNull]

SystemPrompt(agent) == JStr(<<"system prompt of", agent>>)

\* Variant: the second call follows the first tool call handled.
AfterToolCall_Early(i, n) == "AWAITING_MODEL_2"

\* Where the loop goes after the tool call at position i of n.
AfterToolCall(i, n) == IF i < n THEN "EXECUTING_TOOLS" ELSE "AWAITING_MODEL_2"

\* Variant: the answer is returned as the response holds it.
FinalContent_Raw(content) == content

\* message.content or ""
FinalContent(content) == Or(content, JStr(<<>>))

\* Variant: the synthesis follows the Traveler role directly.
OrchAfter_SkipOps(stage) == "synthesis"

\* The stage of traveler_with_ops that follows a sub-agent's return.
OrchAfter(stage) == IF stage = "traveler" THEN "ops" ELSE "synthesis"

\* Variant: the Ops answer is left out of the synthesis prompt.
SynthesisPrompt_NoOps(question, callsign, traveler, ops) ==
    JStr(<<"Passenger question:", question, "Flight:", callsign,
           "Traveler agent said:", traveler,
           "Now give a final answer for the passenger.">>)

\* The user message of the synthesis call.
SynthesisPrompt(question, callsign, traveler, ops) ==
    JStr(<<"Passenger question:", question, "Flight:", callsign,
           "Traveler agent said:", traveler, "Ops agent said:", ops,
           "Now give a final answer for the passenger.">>)

\* ------------------------------------------- inputs of the agent loop
\* Content of a completion response: None or a text (a sequence of words).
Contents == {JNull, JStr(<<"alpha">>)}

ToolCallReq(i, name, arguments) ==
    [arguments |-> arguments, name |-> name, id |-> <<"call", i>>]

\* A batch of tool-call requests, ids by position.
Batch(names, texts) ==
    [i \in 1..Len(names) |-> ToolCallReq(i, names[i], texts[i])]

Response(content, tool_calls) == [content |-> content, tool_calls |-> tool_calls]
NoResponse == Response(JNull, JNull)

\* What the webhook may answer while an agent runs.
AgentUpstreams ==
    {HttpFail,
     HttpOk(Payload(JStr("region1"), JNum(1700), JStr("iso"), JNum(1),
                    JList(<<Flight(JStr(<<"A">>), JNum(99), JNum(8001), JNull, JNull)>>))),
     HttpOk(Payload(JAbsent, JAbsent, JStr("iso"), JAbsent, JList(<<>>)))}

\* ------------------------------------------------------------------ state
VARIABLES
    call,            \* the direct tool invocation under way, with what upstream answers
    out,             \* its outcome, Pending until it has run
    outbound,        \* outbound webhook requests it made
    client_handle,   \* _client: "None" or "Groq"
    api_key,         \* whether GROQ_API_KEY is set
    constructions,   \* client handles constructed in this process
    entry,           \* the entry point running, "none" between invocations
    orch,            \* the stage of traveler_with_ops
    agent,           \* the role whose loop is running
    allowed_tools,   \* the allow-list of the running loop
    pc,              \* the state of the running loop
    messages,        \* the conversation
    tool_calls,      \* the tool-call requests of the first response
    idx,             \* position of the next tool call to handle
    request,         \* the latest completion request sent
    response,        \* the latest completion response
    answer,          \* what the loop (or the synthesis) returned
    raised,          \* the exception that ended the invocation
    dispatched,      \* positions of the batch execute_tool was invoked for
    faulted,         \* positions of the batch whose execute_tool raised
    fetches,         \* outbound snapshot requests of the running loop
    loop_calls,      \* completion calls of the running loop
    total_calls,     \* completion calls of the running entry point
    tool_rounds,     \* sub-agent loops of the entry point that went through tools
    traveler_reply,  \* traveler_with_ops: the Traveler role's answer
    ops_reply        \* traveler_with_ops: the Ops role's answer

\* A completion request: the conversation sent and the tools offered with it
\* (JAbsent when the call passes no tools).
Request(msgs, tools) == [messages |-> msgs, tools |-> tools]
NoRequest == Request(<<>>, JAbsent)

Pending == [kind |-> "pending", exc |-> "", value |-> <<>>]
NoRaise == [kind |-> "none", exc |-> "", value |-> <<>>]

toolVars == <<call, out, outbound>>
clientVars == <<client_handle, api_key, constructions>>
loopVars ==
    <<agent, allowed_tools, pc, messages, tool_calls, idx, request, response, answer,
      raised, dispatched, faulted, fetches, loop_calls>>
orchVars == <<entry, orch, total_calls, tool_rounds, traveler_reply, ops_reply>>
agentVars == <<clientVars, loopVars, orchVars>>
vars == <<toolVars, agentVars>>

\* The agents at rest: no entry point running.
AgentsIdle ==
    /\ entry = "none"
    /\ orch = "none"
    /\ agent = "none"
    /\ allowed_tools = NoAllowList
    /\ pc = "IDLE"
    /\ messages = <<>>
    /\ tool_calls = <<>>
    /\ idx = 1
    /\ request = NoRequest
    /\ response = NoResponse
    /\ answer = JNull
    /\ raised = NoRaise
    /\ dispatched = {}
    /\ faulted = {}
    /\ fetches = 0
    /\ loop_calls = 0
    /\ total_calls = 0
    /\ tool_rounds = 0
    /\ traveler_reply = JNull
    /\ ops_reply = JNull

\* ------------------------------------------------- direct calls of the tools
\* A snapshot request: every header field and the flight count vary.
InitSnapshotCall ==
    \E r \in Regions :
        \/ call = ToolCall("flights_list_region_snapshot", JNull, r, HttpFail)
        \/ \E reg \in RegionVals, st \in TimeVals, iso \in IsoVals, fc \in FlightCountVals,
              fl \in {JNull} \cup FlightLists(SampleFlights, MaxFlights) :
                call = ToolCall("flights_list_region_snapshot", JNull, r,
                                HttpOk(Payload(reg, st, iso, fc, fl)))

\* A callsign lookup: the query and the stored callsigns vary.
InitLookupCall ==
    \E q \in Strs, r \in REGION_WEBHOOKS, st \in TimeVals,
       fl \in FlightLists(CallsignFlights, MaxFlights) :
        call = ToolCall("flights_get_by_callsign", JStr(q), r,
                        HttpOk(Payload(JAbsent, st, JStr("iso"), JAbsent, fl)))

\* An anomaly scan: the kinematics of the flights vary.
InitAlertCall ==
    \E r \in REGION_WEBHOOKS, k \in 0..MaxAlertFlights :
        \E s \in [1..k -> KinFlights] :
            call = ToolCall("alerts_list_active", JNull, r,
                            HttpOk(Payload(JAbsent, JNum(1700), JStr("iso"), JAbsent,
                                           JList(s))))

InitTools ==
    /\ (InitSnapshotCall \/ InitLookupCall \/ InitAlertCall)
    /\ out = Pending
    /\ outbound = 0
    /\ client_handle = "None"
    /\ api_key = TRUE
    /\ constructions = 0
    /\ AgentsIdle

RunSnapshot ==
    /\ out = Pending
    /\ call.tool = "flights_list_region_snapshot"
    /\ out' = flights_list_region_snapshot(call.region, call.up)
    /\ outbound' = OutboundCalls(call.region)
    /\ UNCHANGED <<call, agentVars>>

RunLookup ==
    /\ out = Pending
    /\ call.tool = "flights_get_by_callsign"
    /\ out' = flights_get_by_callsign(call.callsign, call.region, call.up)
    /\ outbound' = OutboundCalls(call.region)
    /\ UNCHANGED <<call, agentVars>>

RunAlerts ==
    /\ out = Pending
    /\ call.tool = "alerts_list_active"
    /\ out' = alerts_list_active(call.region, call.up)
    /\ outbound' = OutboundCalls(call.region)
    /\ UNCHANGED <<call, agentVars>>

NextTools == RunSnapshot \/ RunLookup \/ RunAlerts

SpecTools == InitTools /\ [][NextTools]_vars

\* ------------------------------------------------------- the Groq client
\* A variant that constructs the handle whether or not the key is set.
get_groq_client_NoCheck(key) == Ret("Groq")

get_groq_client(key) ==
    IF ~key THEN Raise("ValueError", "GROQ_API_KEY environment variable is not set")
    ELSE Ret("Groq")

\* A variant that constructs a handle at every call.
client_NoCache(handle, key) ==
    LET c == get_groq_client(key)
    IN  [outcome |-> c, handle |-> IF c.kind = "return" THEN c.value ELSE handle,
         built |-> IF c.kind = "return" THEN 1 ELSE 0]

\* client(): the outcome of the call, _client after it, and the handles it built.
client(handle, key) ==
    IF handle = "None"
    THEN LET c == get_groq_client(key)
         IN  [outcome |-> c, handle |-> IF c.kind = "return" THEN c.value ELSE handle,
              built |-> IF c.kind = "return" THEN 1 ELSE 0]
    ELSE [outcome |-> Ret(handle), handle |-> handle, built |-> 0]

APIError == Raise("APIError", "completion request failed")

\* --------------------------------------------------------- the agent loop
Question == "question"
Callsign == "PIA293"

\* orchVars without the count of completion calls.
orchRest == <<entry, orch, tool_rounds, traveler_reply, ops_reply>>

\* run_tool_calling_chat up to the first completion call, for one role.
StartLoop(a) ==
    /\ agent' = a
    /\ allowed_tools' = AllowedTools(a)
    /\ pc' = "AWAITING_MODEL"
    /\ messages' = <<Msg("system", SystemPrompt(a)), Msg("user", JStr(Question))>>
    /\ tool_calls' = <<>>
    /\ idx' = 1
    /\ request' = NoRequest
    /\ response' = NoResponse
    /\ answer' = JNull
    /\ raised' = NoRaise
    /\ dispatched' = {}
    /\ faulted' = {}
    /\ fetches' = 0
    /\ loop_calls' = 0

RoleOf(e) ==
    CASE e = "traveler_agent" -> "traveler"
      [] e = "ops_agent" -> "ops"
      [] e = "traveler_with_ops" -> "traveler"
      [] OTHER -> "generic"

EntryPoints == {"traveler_agent", "ops_agent", "run_tool_calling_chat", "traveler_with_ops"}

\* A caller invokes one of the entry points.
Invoke(e) ==
    /\ entry = "none"
    /\ entry' = e
    /\ orch' = IF e = "traveler_with_ops" THEN "traveler" ELSE "none"
    /\ StartLoop(RoleOf(e))
    /\ total_calls' = 0
    /\ tool_rounds' = 0
    /\ traveler_reply' = JNull
    /\ ops_reply' = JNull
    /\ UNCHANGED <<toolVars, clientVars>>

\* A completion call is due: in the loop, or as the synthesis.
AtCompletion ==
    \/ pc \in {"AWAITING_MODEL", "AWAITING_MODEL_2"}
    \/ orch = "synthesis" /\ pc = "IDLE"

\* The first call of the loop: create(messages=messages, tools=tools, ...).
FirstRequest == Request(messages, JList(ToolsFor(allowed_tools)))

\* A call without tools (the second call, the synthesis): create(messages=messages).
SecondRequest == Request(messages, JAbsent)

\* A completion call cannot be made: client() raises for want of credentials.
ClientRaises ==
    /\ AtCompletion
    /\ client(client_handle, api_key).outcome.kind = "raise"
    /\ pc' = "RAISED"
    /\ raised' = client(client_handle, api_key).outcome
    /\ UNCHANGED <<toolVars, clientVars, orchVars, agent, allowed_tools, messages,
                   tool_calls, idx, request, response, answer, dispatched, faulted,
                   fetches, loop_calls>>

\* The completion call is made with the client() handle, and counted.
CompletionCall ==
    /\ client(client_handle, api_key).outcome.kind = "return"
    /\ client_handle' = client(client_handle, api_key).handle
    /\ constructions' = constructions + client(client_handle, api_key).built
    /\ total_calls' = total_calls + 1
    /\ UNCHANGED <<api_key, toolVars>>

\* A completion call of the loop fails: the exception leaves the loop.
LoopCallFails ==
    /\ pc \in {"AWAITING_MODEL", "AWAITING_MODEL_2"}
    /\ CompletionCall
    /\ loop_calls' = loop_calls + 1
    /\ request' = IF pc = "AWAITING_MODEL" THEN FirstRequest ELSE SecondRequest
    /\ pc' = "RAISED"
    /\ raised' = APIError
    /\ UNCHANGED <<orchRest, agent, allowed_tools, messages, tool_calls, idx, response,
                   answer, dispatched, faulted, fetches>>

\* First call: the model answers directly (tool_calls is None or empty).
FirstCallAnswers(content, tc) ==
    /\ pc = "AWAITING_MODEL"
    /\ CompletionCall
    /\ loop_calls' = loop_calls + 1
    /\ request' = FirstRequest
    /\ response' = Response(content, tc)
    /\ messages' = Append(messages, AssistantMsg(Response(content, tc)))
    /\ answer' = FinalContent(content)
    /\ pc' = "DONE"
    /\ UNCHANGED <<orchRest, agent, allowed_tools, tool_calls, idx, raised, dispatched,
                   faulted, fetches>>

\* First call: the model asks for a batch of tool calls.
FirstCallRequestsTools(batch) ==
    /\ pc = "AWAITING_MODEL"
    /\ CompletionCall
    /\ loop_calls' = loop_calls + 1
    /\ request' = FirstRequest
    /\ response' = Response(JNull, JList(batch))
    /\ messages' = Append(messages, AssistantMsg(Response(JNull, JList(batch))))
    /\ tool_calls' = batch
    /\ tool_rounds' = tool_rounds + 1
    /\ pc' = "EXECUTING_TOOLS"
    /\ UNCHANGED <<entry, orch, traveler_reply, ops_reply, agent, allowed_tools, idx,
                   answer, raised, dispatched, faulted, fetches>>

\* One pass of `for call in tool_calls`, upstream answering `up` if asked.
ToolStep(up) ==
    /\ pc = "EXECUTING_TOOLS"
    /\ LET c == tool_calls[idx]
           h == HandleToolCall(c, allowed_tools, up)
       IN  /\ dispatched' = IF h.dispatched THEN dispatched \cup {idx} ELSE dispatched
           /\ faulted' = IF h.faulted THEN faulted \cup {idx} ELSE faulted
           /\ fetches' = fetches + h.net
           /\ IF h.kind = "raise"
              THEN /\ pc' = "RAISED"
                   /\ raised' = Raise(h.exc, <<"tool call", idx>>)
                   /\ UNCHANGED <<messages, idx>>
              ELSE /\ messages' = Append(messages, ToolMsg(c, h.result))
                   /\ idx' = idx + 1
                   /\ pc' = AfterToolCall(idx, Len(tool_calls))
                   /\ UNCHANGED raised
    /\ UNCHANGED <<toolVars, clientVars, orchVars, agent, allowed_tools, tool_calls,
                   request, response, answer, loop_calls>>

\* Second call, sent without tools: its content is the answer.
SecondCallAnswers(content, tc) ==
    /\ pc = "AWAITING_MODEL_2"
    /\ CompletionCall
    /\ loop_calls' = loop_calls + 1
    /\ request' = SecondRequest
    /\ response' = Response(content, tc)
    /\ answer' = FinalContent(content)
    /\ pc' = "DONE"
    /\ UNCHANGED <<orchRest, agent, allowed_tools, messages, tool_calls, idx, raised,
                   dispatched, faulted, fetches>>

\* ------------------------------------------------------------ orchestrator
\* traveler_with_ops: a sub-agent returned; the next one starts, or the
\* synthesis messages are built.
SubAgentReturns ==
    /\ entry = "traveler_with_ops"
    /\ orch \in {"traveler", "ops"}
    /\ pc = "DONE"
    /\ orch' = OrchAfter(orch)
    /\ traveler_reply' = IF orch = "traveler" THEN answer ELSE traveler_reply
    /\ ops_reply' = IF orch = "ops" THEN answer ELSE ops_reply
    /\ IF OrchAfter(orch) = "ops"
       THEN StartLoop("ops")
       ELSE /\ agent' = "none"
            /\ allowed_tools' = NoAllowList
            /\ pc' = "IDLE"
            /\ messages' =
                  <<Msg("system", SystemPrompt("coordinator")),
                    Msg("user", SynthesisPrompt(Question, Callsign,
                                                traveler_reply', ops_reply'))>>
            /\ tool_calls' = <<>>
            /\ idx' = 1
            /\ request' = NoRequest
            /\ response' = NoResponse
            /\ answer' = JNull
            /\ raised' = NoRaise
            /\ dispatched' = {}
            /\ faulted' = {}
            /\ fetches' = 0
            /\ loop_calls' = 0
    /\ UNCHANGED <<toolVars, clientVars, entry, total_calls, tool_rounds>>

\* The synthesis call fails.
SynthesisFails ==
    /\ orch = "synthesis"
    /\ pc = "IDLE"
    /\ CompletionCall
    /\ request' = SecondRequest
    /\ pc' = "RAISED"
    /\ raised' = APIError
    /\ UNCHANGED <<orchRest, agent, allowed_tools, messages, tool_calls, idx, response,
                   answer, dispatched, faulted, fetches, loop_calls>>

\* The synthesis call answers: its content is what traveler_with_ops returns.
SynthesisAnswers(content) ==
    /\ orch = "synthesis"
    /\ pc = "IDLE"
    /\ CompletionCall
    /\ request' = SecondRequest
    /\ response' = Response(content, JNull)
    /\ answer' = FinalContent(content)
    /\ orch' = "done"
    /\ UNCHANGED <<entry, tool_rounds, traveler_reply, ops_reply, agent, allowed_tools,
                   pc, messages, tool_calls, idx, raised, dispatched, faulted, fetches,
                   loop_calls>>

\* The entry point returned its answer to the caller.
Returned ==
    \/ entry \in {"traveler_agent", "ops_agent", "run_tool_calling_chat"} /\ pc = "DONE"
    \/ entry = "traveler_with_ops" /\ orch = "done"

\* The entry point ended with an exception raised to the caller.
Failed == entry # "none" /\ pc = "RAISED"

\* The caller has the answer or the exception; the process is free again.
Finish ==
    /\ Returned \/ Failed
    /\ entry' = "none"
    /\ orch' = "none"
    /\ agent' = "none"
    /\ allowed_tools' = NoAllowList
    /\ pc' = "IDLE"
    /\ messages' = <<>>
    /\ tool_calls' = <<>>
    /\ idx' = 1
    /\ request' = NoRequest
    /\ response' = NoResponse
    /\ answer' = JNull
    /\ raised' = NoRaise
    /\ dispatched' = {}
    /\ faulted' = {}
    /\ fetches' = 0
    /\ loop_calls' = 0
    /\ total_calls' = 0
    /\ tool_rounds' = 0
    /\ traveler_reply' = JNull
    /\ ops_reply' = JNull
    /\ UNCHANGED <<toolVars, clientVars>>

\* Between invocations GROQ_API_KEY is set or unset in the environment.
SetEnv ==
    /\ entry = "none"
    /\ api_key' = ~api_key
    /\ UNCHANGED <<toolVars, client_handle, constructions, loopVars, orchVars>>

\* The requests a first response is built of: a function name of the model's
\* choosing with an arguments text.
ToolRequests ==
    {<<"flights_list_region_snapshot", "">>,
     <<"flights_list_region_snapshot", "{\"region\": \"region2\"}">>,
     <<"flights_list_region_snapshot", "{\"callsign\": ">>,
     <<"flights_get_by_callsign", "{\"callsign\": \"a\"}">>,
     <<"flights_get_by_callsign", "">>,
     <<"flights_get_by_callsign", "{\"callsign\": ">>,
     <<"alerts_list_active", "">>,
     <<"alerts_list_active", "{\"callsign\": \"a\"}">>,
     <<"unknown_tool", "">>}

\* A second response may itself ask for tools.
SecondResponseCalls == {JNull, JList(<<ToolCallReq(1, "flights_get_by_callsign", "")>>)}

Init ==
    /\ call = ToolCall("none", JNull, "region1", HttpFail)
    /\ out = Pending
    /\ outbound = 0
    /\ client_handle = "None"
    /\ api_key \in BOOLEAN
    /\ constructions = 0
    /\ AgentsIdle

Next ==
    \/ \E e \in EntryPoints : Invoke(e)
    \/ ClientRaises
    \/ LoopCallFails
    \/ \E content \in Contents, tc \in {JNull, JList(<<>>)} : FirstCallAnswers(content, tc)
    \/ \E n \in 1..MaxToolCalls :
          \E reqs \in [1..n -> ToolRequests] :
              FirstCallRequestsTools(Batch([i \in 1..n |-> reqs[i][1]],
                                           [i \in 1..n |-> reqs[i][2]]))
    \/ \E up \in AgentUpstreams : ToolStep(up)
    \/ \E content \in Contents, tc \in SecondResponseCalls : SecondCallAnswers(content, tc)
    \/ SubAgentReturns
    \/ SynthesisFails
    \/ \E content \in Contents : SynthesisAnswers(content)
    \/ Finish
    \/ SetEnv

Spec == Init /\ [][Next]_vars

\* ------------------------------------------- properties of the agent loop
\* A loop of run_tool_calling_chat is running or has just ended.
InLoop == agent # "none"
LoopEnded == InLoop /\ pc \in {"DONE", "RAISED"}

\* The requests of the first response.
NumRequests == Len(tool_calls)

\* The request at position i is outside the running loop's allow-list.
Disallowed(i) ==
    allowed_tools.restricted /\ tool_calls[i].name \notin allowed_tools.names

\* The conversation holds a tool message for the call id of request i.
Answered(i) ==
    \E k \in 1..Len(messages) :
        /\ messages[k].role = "tool"
        /\ messages[k].tool_call_id = tool_calls[i].id

\* ... and its content is an object with an `error` field.
AnsweredWithError(i) ==
    \E k \in 1..Len(messages) :
        /\ messages[k].role = "tool"
        /\ messages[k].tool_call_id = tool_calls[i].id
        /\ "error" \in DOMAIN messages[k].content.json

\* C1: with an allow-list, every request for a name outside it is never
\* dispatched, gets a tool message with an `error` field for its call id, and
\* the second completion call is still made.
C1_DisallowedAnsweredSecondCallMade ==
    (LoopEnded /\ allowed_tools.restricted) =>
        \A i \in 1..NumRequests :
            Disallowed(i) =>
                /\ i \notin dispatched
                /\ AnsweredWithError(i)
                /\ loop_calls = 2

\* C2: when execute_tool raises for an allowed request, that pass of the loop
\* appends a tool message {error: message} for the call id, the loop goes on
\* with the next request of the batch (or to the second call after the last),
\* and nothing is raised to the caller.
C2_DispatchFaultBecomesResult ==
    [][(pc = "EXECUTING_TOOLS" /\ faulted' # faulted) =>
          /\ faulted' = faulted \cup {idx}
          /\ idx \in dispatched'
          /\ ~Disallowed(idx)
          /\ Len(messages') = Len(messages) + 1
          /\ messages'[Len(messages')].role = "tool"
          /\ messages'[Len(messages')].tool_call_id = tool_calls[idx].id
          /\ DOMAIN messages'[Len(messages')].content.json = {"error"}
          /\ idx' = idx + 1
          /\ pc' = IF idx < NumRequests THEN "EXECUTING_TOOLS" ELSE "AWAITING_MODEL_2"
          /\ raised' = NoRaise]_vars

\* The first of two requests faulted in execute_tool, the second was handled
\* all the same, and the loop returned an answer.
C2_Witness ==
    /\ InLoop
    /\ pc = "DONE"
    /\ NumRequests = 2
    /\ faulted = {1}
    /\ AnsweredWithError(1)
    /\ Answered(2)
    /\ loop_calls = 2

\* C3: once the first response carries tool-call requests, the invocation ends
\* only with a tool result for every request and the second completion call
\* made: handling a single tool call never ends it early.
C3_EveryRequestAnswered ==
    (LoopEnded /\ NumRequests >= 1) =>
        /\ \A i \in 1..NumRequests : Answered(i)
        /\ loop_calls = 2

\* The first response of the running loop, once received.
HasFirstResponse == InLoop /\ Len(messages) >= 3
FirstResponse == messages[3]
NoToolCalls(m) == m.tool_calls.t = "null" \/ (m.tool_calls.t = "list" /\ m.tool_calls.v = <<>>)

\* C4 as stated: a first response without tool calls ends the loop after one
\* completion call and no dispatch, and its content is returned unchanged.
C4_DirectAnswerUnchanged ==
    (HasFirstResponse /\ NoToolCalls(FirstResponse)) =>
        /\ pc = "DONE"
        /\ loop_calls = 1
        /\ dispatched = {}
        /\ fetches = 0
        /\ answer = FirstResponse.content

\* C4 amended: ... and its content is returned unchanged when it is a text,
\* and as the empty text when the response has no content (None).
C4_DirectAnswerOrEmpty ==
    (HasFirstResponse /\ NoToolCalls(FirstResponse)) =>
        /\ pc = "DONE"
        /\ loop_calls = 1
        /\ dispatched = {}
        /\ fetches = 0
        /\ FirstResponse.content.t = "str" => answer = FirstResponse.content
        /\ FirstResponse.content.t = "null" => answer = JStr(<<>>)

C4_Witness ==
    /\ HasFirstResponse
    /\ NoToolCalls(FirstResponse)
    /\ FirstResponse.content = JStr(<<"alpha">>)
    /\ answer = JStr(<<"alpha">>)
    /\ loop_calls = 1
    /\ total_calls = 1

\* C5 as stated: N >= 1 requests give exactly 2 completion calls and exactly
\* N execute_tool invocations.
C5_TwoCallsAndNDispatches ==
    (InLoop /\ pc = "DONE" /\ NumRequests >= 1) =>
        /\ loop_calls = 2
        /\ Cardinality(dispatched) = NumRequests

\* C5 amended: execute_tool is invoked once for each handled request whose
\* name the allow-list admits (every name when there is none) and never for
\* another, so at most N times; the loop makes at most 2 completion calls,
\* and exactly 2, with all N requests handled, when it returns an answer.
C5_DispatchPerAdmittedRequest ==
    InLoop =>
        /\ loop_calls <= 2
        /\ dispatched \subseteq 1..NumRequests
        /\ \A i \in 1..NumRequests :
              i \in dispatched <=> (i < idx /\ ~Disallowed(i))
        /\ (pc = "DONE" /\ NumRequests >= 1) =>
              (loop_calls = 2 /\ idx = NumRequests + 1)

\* Two requests, one outside the allow-list: one dispatch, two completion calls.
C5_Witness ==
    /\ InLoop
    /\ pc = "DONE"
    /\ NumRequests = 2
    /\ Disallowed(1)
    /\ dispatched = {2}
    /\ loop_calls = 2

\* C6 as stated: traveler_with_ops makes exactly 3 completion calls.
C6_ThreeCompletionCalls ==
    (entry = "traveler_with_ops" /\ orch = "done") => total_calls = 3

\* C6 amended: traveler_with_ops that returns has made 3 completion calls
\* plus one for each sub-role whose first response asked for tools (3 to 5):
\* one per sub-role, a second one in a sub-role that ran tools, one synthesis.
C6_ThreePlusToolRounds ==
    entry = "traveler_with_ops" =>
        /\ total_calls <= 5
        /\ tool_rounds <= 2
        /\ orch = "done" => total_calls = 3 + tool_rounds

\* Both sub-roles ran one round of tools: five completion calls.
C6_Witness ==
    /\ entry = "traveler_with_ops"
    /\ orch = "done"
    /\ tool_rounds = 2
    /\ total_calls = 5

\* ------------------------------------------------ properties of the tools
IsReturn(tool) == call.tool = tool /\ out.kind = "return"
Body == call.up.body

\* The flights of the upstream payload, none when the key is missing.
BodyFlights == IF Body.flights.t = "list" THEN Body.flights.v ELSE <<>>

\* C7 as stated: every snapshot the fetcher returns has flight_count equal to
\* the length of its flights, whatever the upstream payload is.
C7_CountEqualsLength ==
    (IsReturn("flights_list_region_snapshot") /\ Body.flights.t = "list") =>
        out.value.flight_count = JNum(Len(FlightsOf(out.value).v))

\* C7 amended: a snapshot returned for a payload without flight_count has
\* flight_count equal to the length of its flights (0 when flights is missing
\* too); a flight_count the payload carries is returned as received.
C7_BackfilledCountIsLength ==
    IsReturn("flights_list_region_snapshot") =>
        /\ Body.flight_count.t = "absent" =>
              out.value.flight_count = JNum(Len(BodyFlights))
        /\ Body.flight_count.t # "absent" =>
              out.value.flight_count = Body.flight_count

C7_Witness ==
    /\ IsReturn("flights_list_region_snapshot")
    /\ Body.flight_count.t = "absent"
    /\ Len(BodyFlights) = 2
    /\ out.value.flight_count = JNum(2)

\* Letters compared without their case.
Fold(c) == IF c \in {"a", "A"} THEN "letter a" ELSE c

\* s is padding, then core, then padding, and core has no padding of its own.
IsCoreOf(core, s) ==
    /\ core = <<>> \/ (~IsSpace(core[1]) /\ ~IsSpace(core[Len(core)]))
    /\ \E i \in 0..Len(s) :
          /\ i + Len(core) <= Len(s)
          /\ \A k \in 1..Len(s) :
                IF k > i /\ k <= i + Len(core) THEN s[k] = core[k - i]
                ELSE IsSpace(s[k])

\* x and y differ in case and in surrounding whitespace at most.
\* The core of s: the one stretch of s that IsCoreOf singles out.
Core(s) ==
    CHOOSE c \in {SubSeq(s, i, j) : i \in 1..(Len(s) + 1), j \in 0..Len(s)} : IsCoreOf(c, s)

SameCallsign(x, y) ==
    LET cx == Core(x)
        cy == Core(y)
    IN  /\ Len(cx) = Len(cy)
        /\ \A k \in 1..Len(cx) : Fold(cx[k]) = Fold(cy[k])

\* The text of a stored callsign, empty when the callsign is missing or null.
StoredText(f) == IF f.callsign.t = "str" THEN f.callsign.v ELSE <<>>

\* Positions of the flights whose callsign is the query, up to case and padding.
Matches(q) == {i \in 1..Len(BodyFlights) : SameCallsign(StoredText(BodyFlights[i]), q)}

FirstMatch(q) == CHOOSE i \in Matches(q) : \A j \in Matches(q) : i <= j

\* C8: a lookup returns the first flight in snapshot order whose callsign
\* equals the query up to case and surrounding whitespace, also when several
\* flights match, and every query that differs from this one in case and
\* surrounding whitespace only returns the same flight over the same snapshot.
C8_FirstMatchNormalized ==
    IsReturn("flights_get_by_callsign") =>
        /\ Matches(call.callsign.v) # {} =>
              out.value.flight = BodyFlights[FirstMatch(call.callsign.v)]
        /\ Matches(call.callsign.v) = {} => out.value.flight = JNull
        /\ \A q \in Strs :
              SameCallsign(q, call.callsign.v) =>
                  LET other == flights_get_by_callsign(JStr(q), call.region, call.up)
                  IN  other.kind = "return" /\ other.value.flight = out.value.flight

\* Two stored callsigns match a padded, lower-case query; the first is returned.
C8_Witness ==
    /\ IsReturn("flights_get_by_callsign")
    /\ call.callsign.v = <<" ", "a">>
    /\ Cardinality(Matches(call.callsign.v)) = 2
    /\ BodyFlights[1] # BodyFlights[2]
    /\ out.value.flight = BodyFlights[1]
    /\ out.value.flight.callsign = JStr(<<"A">>)

\* The fetch gave a snapshot: the region is configured and the body decodes.
Fetched == call.region \in REGION_WEBHOOKS /\ call.up.http = "ok" /\ Body.flights.t # "null"

\* C9: a lookup over a snapshot that is empty or holds no matching callsign
\* returns flight = null with the not-found message; it does not raise.
C9_NotFoundIsNormalResult ==
    (/\ call.tool = "flights_get_by_callsign"
     /\ out # Pending
     /\ Fetched
     /\ Body.flights.t = "list"
     /\ Matches(call.callsign.v) = {}) =>
        /\ out.kind = "return"
        /\ out.value.flight = JNull
        /\ out.value.message = NotFoundMessage(call.callsign.v, call.region)

\* C10: every alert of the anomaly detector has a non-empty reason and the
\* severity "warning"; a flight none of whose rules fired has no alert, so the
\* severity "info" never appears.
C10_AlertsHaveReasons ==
    IsReturn("alerts_list_active") =>
        /\ \A i \in 1..Len(out.value.alerts) :
              LET a == out.value.alerts[i]
              IN  /\ Len(a.reason) > 0
                  /\ a.severity = "warning"
                  /\ a.severity # "info"
                  /\ Reasons(a.flight) # <<>>
        /\ \A i \in 1..Len(BodyFlights) :
              Reasons(BodyFlights[i]) = <<>> =>
                  \A j \in 1..Len(out.value.alerts) :
                      out.value.alerts[j].flight # BodyFlights[i]

\* One flight is flagged and the flight after it, with no rule fired, is not.
C10_Witness ==
    /\ IsReturn("alerts_list_active")
    /\ Len(BodyFlights) = 2
    /\ Reasons(BodyFlights[1]) # <<>>
    /\ Reasons(BodyFlights[2]) = <<>>
    /\ Len(out.value.alerts) = 1
    /\ out.value.alerts[1].flight = BodyFlights[1]
    /\ out.value.alerts[1].severity = "warning"

\* A kinematic reading, with a missing or null one read as 0.
Reading(x) == IF x.t = "num" THEN x.v ELSE 0

\* The altitude of a flight: the geometric one when the flight carries it,
\* else the barometric one, else 0.
FlightAltitude(f) ==
    IF f.geo_altitude.t = "num" THEN f.geo_altitude.v ELSE Reading(f.baro_altitude)

LowSpeedCase(f) == FlightAltitude(f) > 8000 /\ Reading(f.velocity) < 100
DescentCase(f) == Reading(f.vertical_rate) < -20
ClimbCase(f) == Reading(f.vertical_rate) > 20
ShouldAlert(f) == LowSpeedCase(f) \/ DescentCase(f) \/ ClimbCase(f)

\* The triggered descriptions, low-speed first, joined by "; ".
ExpectedReason(f) ==
    LET rate == IF DescentCase(f) THEN <<"Very high descent rate">>
                ELSE IF ClimbCase(f) THEN <<"Very high climb rate">> ELSE <<>>
    IN  IF LowSpeedCase(f)
        THEN IF rate = <<>> THEN <<"Unusually low speed at high altitude">>
             ELSE <<"Unusually low speed at high altitude", "; ">> \o rate
        ELSE rate

\* C11: the alerts are, in snapshot order, exactly the flights with
\* (altitude > 8000 and velocity < 100) or vertical_rate < -20 or
\* vertical_rate > 20, missing readings taken as 0, and each alert's reason is
\* the triggered descriptions joined, low-speed first, descent and climb never
\* together.
C11_AlertExactlyWhenRuleFires ==
    IsReturn("alerts_list_active") =>
        LET should == SelectSeq(BodyFlights, ShouldAlert)
        IN  /\ Len(out.value.alerts) = Len(should)
            /\ \A i \in 1..Len(should) :
                  i <= Len(out.value.alerts) =>
                      /\ out.value.alerts[i].flight = should[i]
                      /\ out.value.alerts[i].reason = ExpectedReason(should[i])

\* C17: a flight that carries both altitudes is judged by the geometric
\* one, whatever the two values are: the low-speed reason is in its alert
\* exactly when the geometric altitude is above 8000 and the velocity below 100.
C17_GeometricAltitudePreferred ==
    IsReturn("alerts_list_active") =>
        \A i \in 1..Len(BodyFlights) :
            LET f == BodyFlights[i]
            IN  (f.geo_altitude.t = "num" /\ f.baro_altitude.t = "num") =>
                    /\ Altitude(f) = f.geo_altitude.v
                    /\ LowSpeedRule(f) <=>
                          (f.geo_altitude.v > 8000 /\ Reading(f.velocity) < 100)

\* The names of the tool schemas a request offers.
OfferedTools(req) ==
    IF req.tools.t = "list" THEN {req.tools.v[i] : i \in 1..Len(req.tools.v)} ELSE {}

\* The tools execute_tool was invoked for in the running loop.
DispatchedTools == {tool_calls[i].name : i \in dispatched}

\* C12: whatever the model requests, the Traveler role dispatches nothing but
\* flights_get_by_callsign and the Ops role nothing but
\* flights_list_region_snapshot and alerts_list_active, and the tool schemas
\* each role offers in its first call are exactly those of its allow-list.
C12_RolesKeepToAllowList ==
    /\ agent = "traveler" =>
          /\ DispatchedTools \subseteq {"flights_get_by_callsign"}
          /\ loop_calls = 1 =>
                /\ request.tools.t = "list"
                /\ OfferedTools(request) = {"flights_get_by_callsign"}
    /\ agent = "ops" =>
          /\ DispatchedTools \subseteq {"flights_list_region_snapshot", "alerts_list_active"}
          /\ loop_calls = 1 =>
                /\ request.tools.t = "list"
                /\ OfferedTools(request) =
                      {"flights_list_region_snapshot", "alerts_list_active"}

\* The Ops role was asked for the callsign lookup and for the anomaly scan:
\* only the scan was dispatched, and the loop returned.
C12_Witness ==
    /\ agent = "ops"
    /\ pc = "DONE"
    /\ NumRequests = 2
    /\ tool_calls[1].name = "flights_get_by_callsign"
    /\ tool_calls[2].name = "alerts_list_active"
    /\ DispatchedTools = {"alerts_list_active"}
    /\ AnsweredWithError(1)

\* traveler_with_ops is running.
Orchestrating == entry = "traveler_with_ops"

\* The user message of the synthesis holds, after the question and the flight,
\* the Traveler answer under its heading and then the Ops answer under its
\* heading, each as it was returned.
EmbedsBothAnswers(prompt) ==
    /\ prompt.t = "str"
    /\ Len(prompt.v) >= 8
    /\ prompt.v[5] = "Traveler agent said:"
    /\ prompt.v[6] = traveler_reply
    /\ prompt.v[7] = "Ops agent said:"
    /\ prompt.v[8] = ops_reply

\* The latest completion request is the synthesis call.
SynthesisRequested ==
    /\ Len(request.messages) = 2
    /\ request.messages[1].content = SystemPrompt("coordinator")

\* C13: traveler_with_ops is sequential: the Ops role starts only when the
\* Traveler role has returned, the synthesis call is made only when both have
\* returned and its prompt embeds both answers verbatim; when a sub-agent
\* fails the failure is what the caller gets: no synthesis call is made, and
\* after a Traveler failure the Ops role is never invoked.
C13_SequentialOrchestration ==
    /\ [](Orchestrating =>
            /\ orch = "traveler" =>
                  (agent = "traveler" /\ traveler_reply = JNull /\ ops_reply = JNull)
            /\ orch = "ops" =>
                  (agent = "ops" /\ traveler_reply.t = "str" /\ ops_reply = JNull)
            /\ orch \in {"traveler", "ops"} => ~SynthesisRequested
            /\ orch \in {"synthesis", "done"} =>
                  /\ traveler_reply.t = "str"
                  /\ ops_reply.t = "str"
                  /\ EmbedsBothAnswers(messages[2].content)
            /\ (orch = "done" \/ (orch = "synthesis" /\ pc = "RAISED")) =>
                  (SynthesisRequested /\ request.messages = messages))
    /\ [][(Orchestrating /\ pc = "RAISED") =>
             (entry' = "none" /\ total_calls' = 0 /\ raised # NoRaise)]_vars

\* The orchestrator returned with two different sub-agent answers.
C13_Witness ==
    /\ Orchestrating
    /\ orch = "done"
    /\ traveler_reply = JStr(<<"alpha">>)
    /\ ops_reply = JStr(<<>>)
    /\ SynthesisRequested
    /\ EmbedsBothAnswers(request.messages[2].content)

\* The second completion call of the running loop has been made.
SecondCallMade == InLoop /\ loop_calls = 2

\* The request carries system + user + the assistant message with the tool
\* calls + one tool message per request, in that order, and no tools.
SecondRequestWellFormed ==
    /\ request.tools = JAbsent
    /\ Len(request.messages) = 3 + NumRequests
    /\ request.messages[1].role = "system"
    /\ request.messages[2].role = "user"
    /\ request.messages[3].role = "assistant"
    /\ request.messages[3].tool_calls = JList(tool_calls)
    /\ \A i \in 1..NumRequests :
          /\ request.messages[3 + i].role = "tool"
          /\ request.messages[3 + i].tool_call_id = tool_calls[i].id

\* Nothing runs after the second call: the loop has ended, the conversation
\* is as it was sent, and tools only ever run before the second call.
OneToolRound ==
    /\ pc = "EXECUTING_TOOLS" => loop_calls = 1
    /\ SecondCallMade =>
          /\ pc \in {"DONE", "RAISED"}
          /\ messages = request.messages
          /\ idx = NumRequests + 1
          /\ dispatched \subseteq 1..NumRequests

\* C14 as stated: ... and the second response's content is the final answer.
C14_SecondCallContentIsAnswer ==
    /\ OneToolRound
    /\ SecondCallMade =>
          /\ SecondRequestWellFormed
          /\ pc = "DONE" => answer = response.content

\* C14 amended: the second completion call is sent with no tool schema and
\* carries exactly system + user + assistant tool-call message + one tool
\* message per request; whatever the second response contains, no tool is
\* dispatched after it, so there is at most one round of tool execution; the
\* final answer is the second response's content when it is a text, and the
\* empty text when the response has no content.
C14_SecondCallEndsLoop ==
    /\ OneToolRound
    /\ SecondCallMade =>
          /\ SecondRequestWellFormed
          /\ (pc = "DONE" /\ response.content.t = "str") => answer = response.content
          /\ (pc = "DONE" /\ response.content.t = "null") => answer = JStr(<<>>)

\* The second response asked for a tool again: nothing more was dispatched
\* and its content was returned.
C14_Witness ==
    /\ SecondCallMade
    /\ pc = "DONE"
    /\ NumRequests = 2
    /\ response.tool_calls.t = "list"
    /\ response.content = JStr(<<"alpha">>)
    /\ answer = JStr(<<"alpha">>)
    /\ Cardinality(dispatched) = 2
    /\ SecondRequestWellFormed

\* The direct call under way is a snapshot request that has run.
SnapshotCallDone == call.tool = "flights_list_region_snapshot" /\ out # Pending

\* C15: on a configured region _fetch_snapshot returns the payload with
\* `region` and `flight_count` set only where the payload lacks them, and every
\* other field, missing or present, exactly as received; on a region outside
\* the mapping it fails with the unknown-region error and no outbound request.
C15_BackfillOnlyWhenAbsent ==
    SnapshotCallDone =>
        /\ call.region \notin REGION_WEBHOOKS =>
              /\ out.kind = "raise"
              /\ out.exc = "ValueError"
              /\ out.value = "Unknown region"
              /\ outbound = 0
        /\ call.region \in REGION_WEBHOOKS => outbound = 1
        /\ (call.region \in REGION_WEBHOOKS /\ call.up.http = "ok"
            /\ Body.flights.t \in {"absent", "list"}) => out.kind = "return"
        /\ out.kind = "return" =>
              /\ call.region \in REGION_WEBHOOKS
              /\ DOMAIN out.value = DOMAIN Body
              /\ out.value.region =
                    (IF Body.region.t = "absent" THEN JStr(call.region) ELSE Body.region)
              /\ out.value.flight_count =
                    (IF Body.flight_count.t = "absent" THEN JNum(Len(BodyFlights))
                     ELSE Body.flight_count)
              /\ out.value.flights = Body.flights
              /\ out.value.snapshot_time = Body.snapshot_time
              /\ out.value.fetched_at_iso = Body.fetched_at_iso

\* A payload with its own region and flight count and without flights or
\* snapshot_time comes back as received.
C15_Witness ==
    /\ SnapshotCallDone
    /\ out.kind = "return"
    /\ Body.region = JStr("elsewhere")
    /\ Body.flight_count = JNum(1)
    /\ Body.flights.t = "absent"
    /\ Body.snapshot_time.t = "absent"
    /\ out.value = Body
    /\ outbound = 1

\* The tool message for request i sits at position 3 + i, carries its call id
\* and tool name, and its content is the serialized result of that request.
ToolMessageOf(i) ==
    LET m == messages[3 + i]
    IN  /\ m.role = "tool"
        /\ m.tool_call_id = tool_calls[i].id
        /\ m.name = tool_calls[i].name
        /\ \E up \in AgentUpstreams :
              /\ HandleToolCall(tool_calls[i], allowed_tools, up).kind = "append"
              /\ m.content = json_dumps(HandleToolCall(tool_calls[i], allowed_tools, up).result)

\* The requests handled so far are the first ones, each with its own message.
HandledInOrder ==
    /\ idx \in 1..(NumRequests + 1)
    /\ Len(messages) = 3 + (idx - 1)
    /\ \A i \in 1..(idx - 1) : ToolMessageOf(i)

\* C16: the tool calls of a batch are handled one at a time in the order
\* received, and the loop ends with exactly one tool message per request, in
\* the order of the requests, each with the call id, the tool name and the
\* serialized result of its own request.
C16_OneToolMessagePerRequestInOrder ==
    (InLoop /\ NumRequests >= 1) =>
        /\ HandledInOrder
        /\ LoopEnded => idx = NumRequests + 1

\* A completion call of the running entry point failed: client() raised for
\* want of credentials, or the completion request itself failed.
CompletionFailed ==
    /\ entry # "none"
    /\ pc = "RAISED"
    /\ raised.exc \in {"ValueError", "APIError"}

\* The failure was at the first call of a loop: no response was received.
FailedAtFirstCall == CompletionFailed /\ InLoop /\ response = NoResponse

\* A completion call is due while no handle exists and the key is not set.
CredentialsMissing == AtCompletion /\ client_handle = "None" /\ ~api_key

\* C18: a failure at a completion call (missing credentials, or a failed
\* first, second or synthesis call) ends the invocation with that failure
\* raised: no answer is produced, the only step that follows hands the failure
\* to the caller, so the call is not retried and no later completion call is
\* made, and a failure at the first call of a loop leaves no tool dispatched
\* and no snapshot fetched.
C18_CompletionFailureIsFatal ==
    /\ [](CompletionFailed => raised.kind = "raise" /\ answer = JNull)
    /\ [](FailedAtFirstCall =>
            /\ dispatched = {}
            /\ faulted = {}
            /\ fetches = 0
            /\ tool_calls = <<>>
            /\ Len(messages) = 2)
    /\ [][/\ CredentialsMissing =>
                /\ pc' = "RAISED"
                /\ raised'.exc = "ValueError"
                /\ total_calls' = total_calls
                /\ client_handle' = "None"
          /\ CompletionFailed =>
                /\ entry' = "none"
                /\ total_calls' = 0
                /\ constructions' = constructions]_vars

\* The Ops loop of traveler_with_ops fails at its first call after the
\* Traveler loop went through a round of tools.
C18_Witness ==
    /\ FailedAtFirstCall
    /\ orch = "ops"
    /\ tool_rounds >= 1

\* C19: in one process the client handle is constructed at most once: once
\* it exists every later client() call returns it and constructs nothing,
\* whatever the environment holds by then; a construction that fails leaves
\* the handle unset, and a client() call that finds it unset constructs it
\* when the key is set.
C19_ClientConstructedAtMostOnce ==
    /\ [](/\ constructions \in {0, 1}
          /\ client_handle = "Groq" <=> constructions = 1
          /\ client_handle = "None" <=> constructions = 0)
    /\ [](client_handle = "Groq" =>
            \A key \in BOOLEAN :
                /\ client(client_handle, key).outcome = Ret(client_handle)
                /\ client(client_handle, key).built = 0)
    /\ [][/\ client_handle = "Groq" =>
                client_handle' = "Groq" /\ constructions' = constructions
          /\ CredentialsMissing =>
                client_handle' = "None" /\ constructions' = constructions
          /\ (AtCompletion /\ client_handle = "None" /\ api_key) =>
                client_handle' = "Groq" /\ constructions' = 1]_vars

\* A completion call was made with the handle of an earlier invocation,
\* after the key was removed from the environment.
C19_Witness ==
    /\ client_handle = "Groq"
    /\ constructions = 1
    /\ ~api_key
    /\ total_calls >= 1

\* The query is empty or only whitespace.
BlankQuery == \A i \in 1..Len(call.callsign.v) : IsSpace(call.callsign.v[i])

\* The flight's callsign is absent, null or blank.
Unnamed(f) ==
    \/ f.callsign.t \in {"absent", "null"}
    \/ f.callsign.t = "str" /\ \A i \in 1..Len(f.callsign.v) : IsSpace(f.callsign.v[i])

UnnamedFlights == {i \in 1..Len(BodyFlights) : Unnamed(BodyFlights[i])}

\* C20: a lookup with an empty or blank query over a snapshot that holds a
\* flight whose callsign is absent, null or blank is not answered "not found":
\* it returns the first such flight in snapshot order, as a match.
C20_BlankQueryMatchesUnnamedFlight ==
    (IsReturn("flights_get_by_callsign") /\ BlankQuery /\ UnnamedFlights # {}) =>
        /\ out.value.flight # JNull
        /\ \E i \in UnnamedFlights :
              /\ \A j \in UnnamedFlights : i <= j
              /\ out.value.flight = BodyFlights[i]
        /\ out.value.message = FoundMessage(call.callsign.v, call.region)

\* A blank query returns the second flight, whose callsign key is missing,
\* after a named one.
C20_Witness ==
    /\ IsReturn("flights_get_by_callsign")
    /\ call.callsign.v = <<" ">>
    /\ UnnamedFlights = {2}
    /\ BodyFlights[2].callsign = JAbsent
    /\ out.value.flight = BodyFlights[2]

====
